---- MODULE Spec2Model ----
(***************************************************************************)
(* A model of HTTPParser (src/src/index.ts): the incremental HTTP/1.x      *)
(* parser.  Byte strings are TLA+ strings (sequences of characters); a JS  *)
(* index i is position i + 1 here.                                         *)
(***************************************************************************)
EXTENDS Integers, Sequences, FiniteSets, TLC

\* Largest chunk the host hands to execute, apart from "all that is left".
MaxChunk == 2

\* How many times the host calls finish() on one connection.
MaxFinish == 1
\* the host re-initialises its parser at most MaxReuse times, and only a
\* connection of which it has passed at most MaxAbandon bytes to execute
MaxReuse == 1
MaxAbandon == 16

\* HTTPParser.maxHeaderSize is configurable (80 KiB by default); the model
\* configures a cap that the ordinary streams stay under and the long ones
\* cross.
maxHeaderSize == 70

(***************************************************************************)
(* JavaScript values.  Every value has the same shape so that two of them  *)
(* can always be compared.                                                 *)
(***************************************************************************)
Num(n) == [k |-> "num", v |-> n, s |-> ""]
Str(t) == [k |-> "str", v |-> 0, s |-> t]
NaN == [k |-> "nan", v |-> 0, s |-> ""]
Null == [k |-> "null", v |-> 0, s |-> ""]
Undefined == [k |-> "undefined", v |-> 0, s |-> ""]

IsNum(a) == a.k = "num"

\* a === b for numbers, null and undefined: NaN equals nothing
StrictEq(a, b) == a.k # "nan" /\ a = b

\* a < b: false as soon as one side is NaN
Less(a, b) == IsNum(a) /\ IsNum(b) /\ a.v < b.v

\* Math.min(a, b)
MathMin(a, b) ==
    IF ~IsNum(a) \/ ~IsNum(b) THEN NaN
    ELSE IF a.v < b.v THEN a ELSE b

\* a + b and a - b on numbers
Plus(a, b) == IF ~IsNum(a) \/ ~IsNum(b) THEN NaN ELSE Num(a.v + b.v)
Minus(a, b) == IF ~IsNum(a) \/ ~IsNum(b) THEN NaN ELSE Num(a.v - b.v)

(***************************************************************************)
(* Strings.                                                                *)
(***************************************************************************)
\* the characters of t at positions from..to, clamped to t (String.substring)
Slice(t, from, to) ==
    LET a == IF from < 1 THEN 1 ELSE from
        b == IF to > Len(t) THEN Len(t) ELSE to
    IN  IF a > b THEN "" ELSE SubSeq(t, a, b)

CharAt(t, i) == Slice(t, i, i)

CharIn(c, set) == \E i \in 1..Len(set) : CharAt(set, i) = c

UpperCase == "ABCDEFGHIJKLMNOPQRSTUVWXYZ"
LowerCase == "abcdefghijklmnopqrstuvwxyz"
Digits == "0123456789"
HexDigits == "0123456789abcdef"

IsDigit(c) == c # "" /\ CharIn(c, Digits)
IsBlank(c) == c = " " \/ c = "\t"

\* the lower-case letter of every upper-case one
LowerOf ==
    [A |-> "a", B |-> "b", C |-> "c", D |-> "d", E |-> "e", F |-> "f", G |-> "g",
     H |-> "h", I |-> "i", J |-> "j", K |-> "k", L |-> "l", M |-> "m", N |-> "n",
     O |-> "o", P |-> "p", Q |-> "q", R |-> "r", S |-> "s", T |-> "t", U |-> "u",
     V |-> "v", W |-> "w", X |-> "x", Y |-> "y", Z |-> "z"]

LowerChar(c) == IF c \in DOMAIN LowerOf THEN LowerOf[c] ELSE c

RECURSIVE toLowerCase(_)
toLowerCase(t) ==
    IF t = "" THEN ""
    ELSE LowerChar(CharAt(t, 1)) \o toLowerCase(Slice(t, 2, Len(t)))

\* t.indexOf(sub) !== -1
Includes(t, sub) ==
    \E i \in 1..(Len(t) - Len(sub) + 1) : Slice(t, i, i + Len(sub) - 1) = sub

\* the value of one digit (0 for a character that is none)
DigitValue(c) ==
    IF c # "" /\ CharIn(LowerChar(c), HexDigits)
    THEN (CHOOSE i \in 1..16 : CharAt(HexDigits, i) = LowerChar(c)) - 1
    ELSE 0

\* the value of a run of digits in the given radix
RECURSIVE DigitsValue(_, _)
DigitsValue(t, radix) ==
    IF t = "" THEN 0
    ELSE DigitsValue(Slice(t, 1, Len(t) - 1), radix) * radix
         + DigitValue(CharAt(t, Len(t)))

\* the position of the first character of t at or after i that is not in set
\* (Len(t) + 1 when there is none)
RECURSIVE SkipWhile(_, _, _)
SkipWhile(t, i, set) ==
    IF i <= Len(t) /\ CharIn(CharAt(t, i), set) THEN SkipWhile(t, i + 1, set) ELSE i

\* the position of the last character of t that is not a blank (0 if none)
RECURSIVE LastNonBlank(_)
LastNonBlank(t) ==
    IF t = "" THEN 0
    ELSE IF ~IsBlank(CharAt(t, Len(t))) THEN Len(t)
    ELSE LastNonBlank(Slice(t, 1, Len(t) - 1))

\* t without the white space around it
Trim(t) == Slice(t, SkipWhile(t, 1, " \t\r\n"), LastNonBlank(t))

\* the number a sign character and a run of digits denote, NaN when the run
\* is empty or is not made of digits of the radix
SignedDigits(sign, d, radix) ==
    IF d = "" \/ SkipWhile(d, 1, Slice(HexDigits \o "ABCDEF", 1, IF radix = 16 THEN 22 ELSE 10)) # Len(d) + 1
    THEN NaN
    ELSE Num(IF sign = "-" THEN 0 - DigitsValue(d, radix) ELSE DigitsValue(d, radix))

\* +u for a trimmed header value u: the empty string is 0, a run of decimal
\* digits with an optional sign is that integer, and anything else the
\* modelled streams contain is NaN.  (The streams carry no hex, fractional,
\* exponent or Infinity literal.)
TrimmedToNumber(u) ==
    IF u = "" THEN Num(0)
    ELSE IF CharIn(CharAt(u, 1), "+-")
    THEN SignedDigits(CharAt(u, 1), Slice(u, 2, Len(u)), 10)
    ELSE SignedDigits("", u, 10)

\* +t on a header value
ToNumber(t) == TrimmedToNumber(Trim(t))

\* parseInt(u, 16) once the sign is read: an optional 0x, then the longest
\* run of hex digits; NaN when that run is empty
UnsignedHexPrefix(sign, u) ==
    IF toLowerCase(Slice(u, 1, 2)) = "0x"
    THEN SignedDigits(sign, Slice(u, 3, SkipWhile(u, 3, HexDigits \o "ABCDEF") - 1), 16)
    ELSE SignedDigits(sign, Slice(u, 1, SkipWhile(u, 1, HexDigits \o "ABCDEF") - 1), 16)

\* parseInt(u, 16) once the leading white space is skipped
SignedHexPrefix(u) ==
    IF u # "" /\ CharIn(CharAt(u, 1), "+-")
    THEN UnsignedHexPrefix(CharAt(u, 1), Slice(u, 2, Len(u)))
    ELSE UnsignedHexPrefix("", u)

\* parseInt(t, 16)
ParseIntHex(t) == SignedHexPrefix(Slice(t, SkipWhile(t, 1, " \t\r\n"), Len(t)))

\* the position of the first character of t at or after i that is in set
\* (Len(t) + 1 when there is none)
RECURSIVE FirstIn(_, _, _)
FirstIn(t, i, set) ==
    IF i <= Len(t) /\ ~CharIn(CharAt(t, i), set) THEN FirstIn(t, i + 1, set) ELSE i

\* Array.prototype.indexOf on a table of strings (a JS index, -1 if absent)
IndexOf(table, t) ==
    IF \E i \in 1..Len(table) : table[i] = t
    THEN (CHOOSE i \in 1..Len(table) :
             table[i] = t /\ \A j \in 1..(i - 1) : table[j] # t) - 1
    ELSE 0 - 1

Bool(b) == [k |-> "bool", v |-> IF b THEN 1 ELSE 0, s |-> ""]

(***************************************************************************)
(* The parser.                                                             *)
(***************************************************************************)
methods == <<
    "DELETE", "GET", "HEAD", "POST", "PUT", "CONNECT", "OPTIONS", "TRACE",
    "COPY", "LOCK", "MKCOL", "MOVE", "PROPFIND", "PROPPATCH", "SEARCH",
    "UNLOCK", "BIND", "REBIND", "UNBIND", "ACL", "REPORT", "MKACTIVITY",
    "CHECKOUT", "MERGE", "M-SEARCH", "NOTIFY", "SUBSCRIBE", "UNSUBSCRIBE",
    "PATCH", "PURGE", "MKCALENDAR", "LINK", "UNLINK" >>

REQUEST == "REQUEST"
RESPONSE == "RESPONSE"

HEADER_STATES == {"REQUEST_LINE", "RESPONSE_LINE", "HEADER"}
FINISH_STATES == {"REQUEST_LINE", "RESPONSE_LINE", "BODY_RAW"}

\* the message descriptor that initialize installs
EmptyInfo ==
    [method |-> Undefined, url |-> Undefined,
     statusCode |-> Undefined, statusMessage |-> Undefined,
     versionMajor |-> Undefined, versionMinor |-> Undefined,
     headers |-> << >>, trailers |-> << >>, upgrade |-> FALSE,
     connection |-> Undefined, shouldKeepAlive |-> Undefined]

\* initialize(type) that leaves isChunked as it was
initialize_keepsChunked(h, type) ==
    [h EXCEPT !.type = type,
              !.state = IF type = REQUEST THEN "REQUEST_LINE" ELSE "RESPONSE_LINE",
              !.info = EmptyInfo,
              !.headerSize = 0,
              !.bodyBytes = Null,
              !.hadError = FALSE]

\* initialize(type) on the parser h; line, chunk, offset and length are not
\* touched
initialize(h, type) ==
    [h EXCEPT !.type = type,
              !.state = IF type = REQUEST THEN "REQUEST_LINE" ELSE "RESPONSE_LINE",
              !.info = EmptyInfo,
              !.isChunked = FALSE,
              !.headerSize = 0,
              !.bodyBytes = Null,
              !.hadError = FALSE]

\* a callback of the host: the call is appended to the host's record
Emit(h, call) == [h EXCEPT !.calls = Append(@, call)]

\* nextRequest without its initialize: the parser stays where it was
nextRequest_keepsState(h) == Emit(h, [cb |-> "on_message_complete"])

nextRequest(h) == initialize(Emit(h, [cb |-> "on_message_complete"]), h.type)

\* chunk.toString('ascii', start, end) with JS indices
toString(chunk, start, end) == Slice(chunk, start + 1, end)

\* the first JS index i >= from with chunk[i] = "\n" (length when none)
RECURSIVE FindLF(_, _, _)
FindLF(chunk, i, length) ==
    IF i >= length THEN length
    ELSE IF CharAt(chunk, i + 1) = "\n" THEN i
    ELSE FindLF(chunk, i + 1, length)

\* a line without the CR that ends it
StripCR(full) ==
    IF CharAt(full, Len(full)) = "\r" THEN Slice(full, 1, Len(full) - 1) ELSE full

\* consumeLine when the first line feed at or after offset is at JS index i
\* (i = length: there is none)
ConsumeLineAt(h, i) ==
    IF i < h.length
    THEN [h |-> [h EXCEPT !.line = "", !.offset = Num(i + 1)],
          line |-> Str(StripCR(h.line \o toString(h.chunk.s, h.offset.v, i)))]
    ELSE [h |-> [h EXCEPT !.line = @ \o toString(h.chunk.s, h.offset.v, h.length),
                          !.offset = Num(h.length)],
          line |-> Undefined]

\* consumeLine: the parser afterwards and the line, Undefined when the chunk
\* holds no line feed.  Called with a numeric offset below length.
consumeLine(h) == ConsumeLineAt(h, FindLF(h.chunk.s, h.offset.v, h.length))

\* HEADER_REGEX = /^([^: \t]+):[ \t]*((?:.*[^ \t])|)/ on a line without CR
HeaderMatch(line) ==
    LET e == FirstIn(line, 1, ": \t")
        rest == Slice(line, e + 1, Len(line))
    IN  [ok |-> e > 1 /\ CharAt(line, e) = ":",
         name |-> Slice(line, 1, e - 1),
         value |-> Slice(rest, SkipWhile(rest, 1, " \t"), LastNonBlank(rest))]

\* HEADER_CONTINUE_REGEX = /^[ \t]+(.*[^ \t])/
ContinueMatch(line) ==
    [ok |-> IsBlank(CharAt(line, 1)) /\ LastNonBlank(line) > 0,
     text |-> Slice(line, SkipWhile(line, 1, " \t"), LastNonBlank(line))]

\* parseHeader that pushes the name of a new field without its value
HeaderMatched_nameOnly(line, headers, m, c) ==
    IF m.ok
    THEN [headers |-> Append(headers, m.name), thrown |-> ""]
    ELSE IF c.ok /\ Len(headers) > 0
    THEN [headers |-> [headers EXCEPT ![Len(headers)] =
                         @ \o (IF Len(@) > 0 THEN " " ELSE "") \o c.text],
          thrown |-> ""]
    ELSE [headers |-> headers, thrown |-> ""]

\* parseHeader once both regular expressions are tried
HeaderMatched(line, headers, m, c) ==
    IF m.ok
    THEN [headers |-> headers \o << m.name, m.value >>, thrown |-> ""]
    ELSE IF c.ok /\ Len(headers) > 0
    THEN [headers |-> [headers EXCEPT ![Len(headers)] =
                         @ \o (IF Len(@) > 0 THEN " " ELSE "") \o c.text],
          thrown |-> ""]
    ELSE [headers |-> headers, thrown |-> ""]

\* parseHeader(line, headers): the headers afterwards, or the error thrown
parseHeader(line, headers) ==
    IF Includes(line, "\r")
    THEN [headers |-> headers, thrown |-> "HPE_LF_EXPECTED"]
    ELSE HeaderMatched(line, headers, HeaderMatch(line), ContinueMatch(line))

\* what one state handler does: the parser afterwards, whether it returned
\* true (the loop breaks), and the error it threw ("" when none)
Result(h, brk, thrown) == [h |-> h, brk |-> brk, thrown |-> thrown]

\* REQUEST_REGEX = /^([A-Z-]+) ([^ ]+) HTTP\/(\d)\.(\d)$/
RequestMatch(line) ==
    LET n == Len(line)
        sp == FirstIn(line, 1, " ")
        method == Slice(line, 1, sp - 1)
        url == Slice(line, sp + 1, n - 9)
    IN  [ok |-> /\ sp > 1
                /\ SkipWhile(method, 1, UpperCase \o "-") = Len(method) + 1
                /\ n - 9 >= sp + 1
                /\ ~Includes(url, " ")
                /\ Slice(line, n - 8, n - 3) = " HTTP/"
                /\ IsDigit(CharAt(line, n - 2))
                /\ CharAt(line, n - 1) = "."
                /\ IsDigit(CharAt(line, n)),
         method |-> method,
         url |-> url,
         major |-> DigitsValue(CharAt(line, n - 2), 10),
         minor |-> DigitsValue(CharAt(line, n), 10)]

\* REQUEST_LINE once the line is matched against REQUEST_REGEX and the
\* method looked up
RequestLineMatched(h, m, method) ==
    IF ~m.ok THEN Result(h, FALSE, "HPE_INVALID_CONSTANT")
    ELSE IF method = 0 - 1
    THEN Result([h EXCEPT !.info.method = Num(method)], FALSE, "HPE_INVALID_METHOD")
    ELSE Result([h EXCEPT !.info.method = Num(method),
                          !.info.url = Str(m.url),
                          !.info.versionMajor = Num(m.major),
                          !.info.versionMinor = Num(m.minor),
                          !.bodyBytes = Num(0),
                          !.state = "HEADER"], FALSE, "")

\* REQUEST_LINE once consumeLine has answered c
RequestLineRead(c, m) ==
    IF c.line = Undefined \/ c.line.s = "" THEN Result(c.h, FALSE, "")
    ELSE RequestLineMatched(c.h, m, IndexOf(methods, m.method))

RequestLineConsumed(c) == RequestLineRead(c, RequestMatch(c.line.s))

REQUEST_LINE(h) == RequestLineConsumed(consumeLine(h))

\* RESPONSE_REGEX = /^HTTP\/(\d)\.(\d) (\d{3}) ?(.*)$/ ("." matches no CR)
ResponseMatch(line) ==
    LET n == Len(line)
        from == IF CharAt(line, 13) = " " THEN 14 ELSE 13
        message == Slice(line, from, n)
    IN  [ok |-> /\ Slice(line, 1, 5) = "HTTP/"
                /\ IsDigit(CharAt(line, 6))
                /\ CharAt(line, 7) = "."
                /\ IsDigit(CharAt(line, 8))
                /\ CharAt(line, 9) = " "
                /\ Len(Slice(line, 10, 12)) = 3
                /\ SkipWhile(Slice(line, 10, 12), 1, Digits) = 4
                /\ ~Includes(message, "\r"),
         major |-> DigitsValue(CharAt(line, 6), 10),
         minor |-> DigitsValue(CharAt(line, 8), 10),
         statusCode |-> DigitsValue(Slice(line, 10, 12), 10),
         statusMessage |-> message]

\* RESPONSE_LINE once the line is matched against RESPONSE_REGEX
ResponseLineMatched(h, m) ==
    IF ~m.ok THEN Result(h, FALSE, "HPE_INVALID_CONSTANT")
    ELSE Result([h EXCEPT !.info.versionMajor = Num(m.major),
                          !.info.versionMinor = Num(m.minor),
                          !.info.statusCode = Num(m.statusCode),
                          !.info.statusMessage = Str(m.statusMessage),
                          !.bodyBytes = IF \/ m.statusCode \div 100 = 1
                                           \/ m.statusCode = 204
                                           \/ m.statusCode = 304
                                        THEN Num(0) ELSE @,
                          !.state = "HEADER"], FALSE, "")

\* RESPONSE_LINE once consumeLine has answered c
ResponseLineConsumed(c) ==
    IF c.line = Undefined \/ c.line.s = "" THEN Result(c.h, FALSE, "")
    ELSE ResponseLineMatched(c.h, ResponseMatch(c.line.s))

RESPONSE_LINE(h) == ResponseLineConsumed(consumeLine(h))

\* shouldKeepAlive(); conn is info.connection, and conn?.indexOf(t) is
\* undefined when conn is
KeepAlive(h, conn) ==
    IF Less(Num(0), h.info.versionMajor) /\ Less(Num(0), h.info.versionMinor)
    THEN IF conn = Undefined \/ Includes(conn.s, "close")          \* ... !== -1
         THEN FALSE
         ELSE h.bodyBytes # Null \/ h.isChunked
    ELSE IF conn # Undefined /\ ~Includes(conn.s, "keep-alive")     \* ... === -1
         THEN FALSE
         ELSE h.bodyBytes # Null \/ h.isChunked

shouldKeepAlive(h) == KeepAlive(h, h.info.connection)

\* one pass of the loop of HEADER over the header pairs: the pair name,
\* value is applied to a, the parser with the locals hasContentLength and
\* hasUpgradeHeader and the error thrown
ScanHeader(a, name, value, contentLength) ==
    IF name = "transfer-encoding"
    THEN [a EXCEPT !.h.isChunked = toLowerCase(value) = "chunked"]
    ELSE IF name = "content-length"
    THEN IF a.hasContentLength /\ ~StrictEq(contentLength, a.h.bodyBytes)
         THEN [a EXCEPT !.thrown = "HPE_UNEXPECTED_CONTENT_LENGTH"]
         ELSE [a EXCEPT !.hasContentLength = TRUE, !.h.bodyBytes = contentLength]
    ELSE IF name = "connection"
    THEN [a EXCEPT !.h.info.connection =
                      Str((IF @ = Undefined THEN "undefined" ELSE @.s)
                          \o toLowerCase(value))]
    ELSE IF name = "upgrade"
    THEN [a EXCEPT !.hasUpgradeHeader = TRUE]
    ELSE a

\* the loop of HEADER over the header pairs from pair i on
RECURSIVE ScanHeaders(_, _)
ScanHeaders(a, i) ==
    IF i > Len(a.h.info.headers) \/ a.thrown # "" THEN a
    ELSE ScanHeaders(ScanHeader(a, toLowerCase(a.h.info.headers[i]),
                                a.h.info.headers[i + 1],
                                ToNumber(a.h.info.headers[i + 1])), i + 2)

\* "if both isChunked and hasContentLength, isChunked wins"
ResolveFraming(a) ==
    IF a.thrown = "" /\ a.h.isChunked /\ a.hasContentLength
    THEN [a EXCEPT !.h.bodyBytes = Null] ELSE a

\* the value given to info.upgrade
UpgradeDecision(a) ==
    IF a.hasUpgradeHeader /\ Includes(a.h.info.connection.s, "upgrade")
    THEN a.h.type = REQUEST \/ StrictEq(a.h.info.statusCode, Num(101))
    ELSE a.h.info.method = Num(IndexOf(methods, "CONNECT"))

SetUpgrade(a, upgrade) ==
    [a EXCEPT !.h.info.upgrade = upgrade, !.h.isChunked = @ /\ ~upgrade]

\* the upgrade decision; info.connection!.indexOf throws a TypeError when
\* there is an Upgrade header and info.connection is undefined
ResolveUpgrade(a) ==
    IF a.thrown # "" THEN a
    ELSE IF a.hasUpgradeHeader /\ a.h.info.connection = Undefined
    THEN [a EXCEPT !.thrown = "TypeError"]
    ELSE SetUpgrade(a, UpgradeDecision(a))

ResolveKeepAlive(a) ==
    IF a.thrown # "" THEN a
    ELSE [a EXCEPT !.h.info.shouldKeepAlive = Bool(shouldKeepAlive(a.h))]

\* the on_headers_complete call
OnHeadersComplete(i) ==
    [cb |-> "on_headers_complete",
     versionMajor |-> i.versionMajor, versionMinor |-> i.versionMinor,
     headers |-> i.headers, method |-> i.method, url |-> i.url,
     statusCode |-> i.statusCode, statusMessage |-> i.statusMessage,
     upgrade |-> i.upgrade, shouldKeepAlive |-> i.shouldKeepAlive]

\* the end of HEADER with the test for an unknown length ahead of the test
\* for a chunked body
AfterHeaders_rawFirst(h, skipBody) ==
    IF skipBody = 2 THEN Result(nextRequest(h), TRUE, "")
    ELSE IF h.bodyBytes = Null
    THEN Result([h EXCEPT !.state = "BODY_RAW"], FALSE, "")
    ELSE IF h.isChunked /\ skipBody = 0
    THEN Result([h EXCEPT !.state = "BODY_CHUNKHEAD"], FALSE, "")
    ELSE IF skipBody = 1 \/ StrictEq(h.bodyBytes, Num(0))
    THEN Result(nextRequest(h), h.info.upgrade, "")
    ELSE Result([h EXCEPT !.state = "BODY_SIZED"], FALSE, "")

\* the end of HEADER: h is the parser when on_headers_complete has been
\* called and has answered skipBody
AfterHeaders(h, skipBody) ==
    IF skipBody = 2 THEN Result(nextRequest(h), TRUE, "")
    ELSE IF h.isChunked /\ skipBody = 0
    THEN Result([h EXCEPT !.state = "BODY_CHUNKHEAD"], FALSE, "")
    ELSE IF skipBody = 1 \/ StrictEq(h.bodyBytes, Num(0))
    THEN Result(nextRequest(h), h.info.upgrade, "")
    ELSE IF h.bodyBytes = Null
    THEN Result([h EXCEPT !.state = "BODY_RAW"], FALSE, "")
    ELSE Result([h EXCEPT !.state = "BODY_SIZED"], FALSE, "")

HeadersResolved(a, skipBody) ==
    IF a.thrown # "" THEN Result(a.h, FALSE, a.thrown)
    ELSE AfterHeaders(Emit(a.h, OnHeadersComplete(a.h.info)), skipBody)

\* HEADER once the empty line is read: framing, upgrade, keep-alive, the
\* on_headers_complete callback answering skipBody, and the transition
HeadersComplete(h, skipBody) ==
    HeadersResolved(
        ResolveKeepAlive(ResolveUpgrade(ResolveFraming(
            ScanHeaders([h |-> h, hasContentLength |-> FALSE,
                         hasUpgradeHeader |-> FALSE, thrown |-> ""], 1)))),
        skipBody)

\* a non-empty line of HEADER or BODY_CHUNKTRAILERS went through parseHeader
HeaderParsed(h, field, r) ==
    Result([h EXCEPT !.info[field] = r.headers], FALSE, r.thrown)

\* HEADER once consumeLine has answered c
HeaderConsumed(c, skipBody) ==
    IF c.line = Undefined THEN Result(c.h, FALSE, "")
    ELSE IF c.line.s # ""
    THEN HeaderParsed(c.h, "headers", parseHeader(c.line.s, c.h.info.headers))
    ELSE HeadersComplete(c.h, skipBody)

HEADER(h, skipBody) == HeaderConsumed(consumeLine(h), skipBody)

\* BODY_CHUNKHEAD once bodyBytes holds the parsed size
ChunkSizeRead(h) ==
    IF h.bodyBytes = NaN THEN Result(h, FALSE, "HPE_INVALID_CHUNK_SIZE")
    ELSE IF StrictEq(h.bodyBytes, Num(0))
    THEN Result([h EXCEPT !.state = "BODY_CHUNKTRAILERS"], FALSE, "")
    ELSE Result([h EXCEPT !.state = "BODY_CHUNK"], FALSE, "")

\* BODY_CHUNKHEAD once consumeLine has answered c
ChunkHeadConsumed(c) ==
    IF c.line = Undefined THEN Result(c.h, FALSE, "")
    ELSE ChunkSizeRead([c.h EXCEPT !.bodyBytes = ParseIntHex(c.line.s)])

BODY_CHUNKHEAD(h) == ChunkHeadConsumed(consumeLine(h))

\* the on_body(chunk, start, length) call; data is the view it designates
\* when start and length are byte counts
OnBody(h, length) ==
    [cb |-> "on_body", start |-> h.offset, length |-> length,
     data |-> IF IsNum(h.offset) /\ IsNum(length) /\ length.v > 0
              THEN toString(h.chunk.s, h.offset.v, h.offset.v + length.v)
              ELSE ""]

\* length bytes of body are passed to on_body and counted
BodyTaken(h, length) ==
    [Emit(h, OnBody(h, length)) EXCEPT
        !.offset = Plus(@, length), !.bodyBytes = Minus(@, length)]

\* BODY_CHUNK once the bytes are taken; JS "== 0"
\* BODY_CHUNK that goes back to BODY_CHUNKHEAD without BODY_CHUNKEND
ChunkTaken_skipsEnd(h) ==
    IF StrictEq(h.bodyBytes, Num(0))
    THEN Result([h EXCEPT !.state = "BODY_CHUNKHEAD"], FALSE, "")
    ELSE Result(h, FALSE, "")

ChunkTaken(h) ==
    IF StrictEq(h.bodyBytes, Num(0))
    THEN Result([h EXCEPT !.state = "BODY_CHUNKEND"], FALSE, "")
    ELSE Result(h, FALSE, "")

BODY_CHUNK(h) ==
    ChunkTaken(BodyTaken(h, MathMin(Minus(Num(h.length), h.offset), h.bodyBytes)))

\* BODY_CHUNKEND once consumeLine has answered c
ChunkEndConsumed(c) ==
    IF c.line = Undefined THEN Result(c.h, FALSE, "")
    ELSE IF c.line.s # "" THEN Result(c.h, FALSE, "HPE_STRICT")
    ELSE Result([c.h EXCEPT !.state = "BODY_CHUNKHEAD"], FALSE, "")

BODY_CHUNKEND(h) == ChunkEndConsumed(consumeLine(h))

\* the end of BODY_CHUNKTRAILERS: the trailers, if any, then the next message
TrailersComplete(h) ==
    IF Len(h.info.trailers) > 0
    THEN nextRequest(Emit(h, [cb |-> "on_headers",
                              headers |-> h.info.trailers, url |-> ""]))
    ELSE nextRequest(h)

\* BODY_CHUNKTRAILERS once consumeLine has answered c
TrailersConsumed(c) ==
    IF c.line = Undefined THEN Result(c.h, FALSE, "")
    ELSE IF c.line.s # ""
    THEN HeaderParsed(c.h, "trailers", parseHeader(c.line.s, c.h.info.trailers))
    ELSE Result(TrailersComplete(c.h), FALSE, "")

BODY_CHUNKTRAILERS(h) == TrailersConsumed(consumeLine(h))

BODY_RAW(h) ==
    Result([Emit(h, OnBody(h, Minus(Num(h.length), h.offset))) EXCEPT
               !.offset = Num(h.length)], FALSE, "")

\* BODY_SIZED once the bytes are taken
SizedTaken(h) ==
    IF StrictEq(h.bodyBytes, Num(0))
    THEN Result(nextRequest(h), FALSE, "")
    ELSE Result(h, FALSE, "")

\* BODY_SIZED that takes the rest of the chunk whatever bodyBytes says
BODY_SIZED_restOfChunk(h) ==
    SizedTaken(BodyTaken(h, Minus(Num(h.length), h.offset)))

BODY_SIZED(h) ==
    SizedTaken(BodyTaken(h, MathMin(Minus(Num(h.length), h.offset), h.bodyBytes)))

\* this[this.state](): the handler of the current state; skipBody is what
\* the host's on_headers_complete answers
Dispatch(h, skipBody) ==
    CASE h.state = "REQUEST_LINE" -> REQUEST_LINE(h)
      [] h.state = "RESPONSE_LINE" -> RESPONSE_LINE(h)
      [] h.state = "HEADER" -> HEADER(h, skipBody)
      [] h.state = "BODY_CHUNKHEAD" -> BODY_CHUNKHEAD(h)
      [] h.state = "BODY_CHUNK" -> BODY_CHUNK(h)
      [] h.state = "BODY_CHUNKEND" -> BODY_CHUNKEND(h)
      [] h.state = "BODY_CHUNKTRAILERS" -> BODY_CHUNKTRAILERS(h)
      [] h.state = "BODY_RAW" -> BODY_RAW(h)
      [] h.state = "BODY_SIZED" -> BODY_SIZED(h)

\* values execute and finish hand back besides numbers
ParseError(code) == [k |-> "ParseError", v |-> 0, s |-> code]
Thrown(name) == [k |-> "thrown", v |-> 0, s |-> name]

\* the first statements of execute
ExecuteEnter(h, chunk) ==
    [h EXCEPT !.chunk = Str(chunk), !.offset = Num(0), !.length = Len(chunk)]

\* the catch clause of execute: a ParseError is recorded and returned,
\* anything else is thrown on to the caller
ExecuteCatch(h, thrown) ==
    IF thrown = "TypeError"
    THEN [h |-> h, ret |-> Thrown(thrown)]
    ELSE [h |-> [h EXCEPT !.hadError = TRUE], ret |-> ParseError(thrown)]

\* the statements of execute after its loop
ExecuteTail(h) ==
    LET size == IF IsNum(h.offset) THEN h.headerSize + h.offset.v ELSE h.headerSize
        h1 == [h EXCEPT !.chunk = Null]
        h2 == [h1 EXCEPT !.headerSize = size]
    IN  IF h.state \in HEADER_STATES
        THEN IF size > maxHeaderSize
             THEN [h |-> h2, ret |-> ParseError("HPE_HEADER_OVERFLOW")]
             ELSE [h |-> h2, ret |-> h.offset]
        ELSE [h |-> h1, ret |-> h.offset]

\* the while loop of execute, run to its end: LoopTest is its condition,
\* LoopBody what follows one call of a handler
RECURSIVE LoopTest(_, _)
LoopBody(r, skipBody) ==
    IF r.thrown # "" THEN ExecuteCatch(r.h, r.thrown)
    ELSE IF r.brk THEN ExecuteTail(r.h)
    ELSE LoopTest(r.h, skipBody)

LoopTest(h, skipBody) ==
    IF ~Less(h.offset, Num(h.length)) THEN ExecuteTail(h)
    ELSE LoopBody(Dispatch(h, skipBody), skipBody)

\* execute(chunk) as one call: the parser afterwards and what it returns
execute(h, chunk, skipBody) == LoopTest(ExecuteEnter(h, chunk), skipBody)

\* finish(): the parser afterwards and what it returns
\* finish without its hadError test
finish_ignoresError(h) ==
    IF h.state \notin FINISH_STATES
    THEN [h |-> h, ret |-> ParseError("HPE_INVALID_EOF_STATE")]
    ELSE IF h.state = "BODY_RAW"
    THEN [h |-> Emit(h, [cb |-> "on_message_complete"]), ret |-> Undefined]
    ELSE [h |-> h, ret |-> Undefined]

finish(h) ==
    IF h.hadError THEN [h |-> h, ret |-> Undefined]
    ELSE IF h.state \notin FINISH_STATES
    THEN [h |-> h, ret |-> ParseError("HPE_INVALID_EOF_STATE")]
    ELSE IF h.state = "BODY_RAW"
    THEN [h |-> Emit(h, [cb |-> "on_message_complete"]), ret |-> Undefined]
    ELSE [h |-> h, ret |-> Undefined]

\* the parser as the constructor leaves it; the fields that only initialize
\* sets are shown with the values it would give them, and no operation runs
\* before initialize
Constructed ==
    [type |-> "", state |-> "", info |-> EmptyInfo,
     chunk |-> Null, offset |-> Num(0), length |-> 0, line |-> "",
     isChunked |-> FALSE, headerSize |-> 0, bodyBytes |-> Null,
     hadError |-> FALSE, calls |-> << >>]

(***************************************************************************)
(* The host's inputs.                                                      *)
(***************************************************************************)
\* what on_headers_complete may answer: 0 (parse the body), 1, 2, and 3 for
\* any other truthy answer
Directives == {0, 1, 2, 3}

\* the host has not been asked yet
NoAnswer == 0 - 1

\* the position in t of the line feed that ends the first header block: the
\* first empty line that follows a line that is not empty (0 when t holds no
\* whole header block)
RECURSIVE BlockEnd(_, _, _)
\* BlockEnd when the line that starts at position i ends with the line feed
\* at JS index lf (the length of t when there is none)
BlockEndAt(t, i, started, lf) ==
    IF lf = Len(t) THEN 0
    ELSE IF StripCR(Slice(t, i, lf)) # "" THEN BlockEnd(t, lf + 2, TRUE)
    ELSE IF started THEN lf + 1
    ELSE BlockEnd(t, lf + 2, FALSE)

BlockEnd(t, i, started) == BlockEndAt(t, i, started, FindLF(t, i - 1, Len(t)))

\* a connection: the type of its parser, its bytes, and the length of its
\* first header block
Req(bytes) == [mode |-> REQUEST, bytes |-> bytes, block |-> BlockEnd(bytes, 1, FALSE)]
Res(bytes) == [mode |-> RESPONSE, bytes |-> bytes, block |-> BlockEnd(bytes, 1, FALSE)]

Streams == {
    Req("GET / HTTP/1.1\r\nHost: x\r\n\r\n"),
    Req("GET / HTTP/1.1\n\nGET /b HTTP/1.0\r\n\r\n"),
    Req("PUT /p HTTP/1.1\r\nContent-Length: 3\r\n\r\nabcGET / HTTP/1.1\n\n"),
    Req("PUT / HTTP/1.1\nTransfer-Encoding: chunked\n\n2\r\nhi\r\n1\n!\n0\r\nX: y\r\n\r\n"),
    Req("PUT / HTTP/1.1\nTransfer-Encoding: chunked\n\n1\na\n0\n\n"),
    Req("PUT / HTTP/1.1\nContent-Length: 5\nContent-Length: 6\n\n"),
    Req("CONNECT h:1 HTTP/1.1\r\n\r\nxyz"),
    Req("PUT /long HTTP/1.1\nContent-Length: 5\nX-A: aaaaaaaaaaaaaaaaaaaaaaaaaaaaaa\n\nab"),
    Req("GET / HTTP/1.1\nUpgrade: h\n\n"),
    Req("PUT / HTTP/1.1\nContent-Length: x\n\nab"),
    Req("PUT / HTTP/1.1\nContent-Length: -2\n\nab"),
    Req("get / HTTP/1.1\nGET / HTTP/1.1\n\n"),
    Req("FOO / HTTP/1.1\n\n"),
    Req("GET / HTTP/1.1\nA: b\n\tc \nbad\nD:\r\n\r\n"),
    Req("GET / HTTP/1.1\nA:\rb\n\n"),
    Req("PUT / HTTP/1.1\nTransfer-Encoding: chunked\nContent-Length: 3\n\n1\na\n0\n\n"),
    Req("GET / HTTP/1.1\nConnection: Upgrade\nUpgrade: ws\n\nab"),
    Req("GET / HTTP/1.1\nConnection: close\n\n"),
    Req("GET / HTTP/1.0\nConnection: Keep-Alive\n\n"),
    Req("PUT / HTTP/1.1\nTransfer-Encoding: chunked\n\nzz\n"),
    Req("PUT / HTTP/1.1\nTransfer-Encoding: chunked\n\n1\nab\n"),
    Res("HTTP/1.1 200 OK\r\n\r\nabc"),
    Res("HTTP/1.1 204 No\n\nHTTP/1.0 200\nContent-Length: 1\n\na"),
    Res("HTTP/1.1 101 S\nConnection: upgrade\nUpgrade: ws\n\nab"),
    Res("GET / HTTP/1.1\n\n"),
    Req("CONNECT h:1 HTTP/1.1\nTransfer-Encoding: chunked\nContent-Length: 1\n\nx"),
    Req("PUT / HTTP/1.1\nTransfer-Encoding: chunked\n\n11111111111111111111111111111111111111111111111111111111111111111111111") }

(***************************************************************************)
(* The state machine: one parser and the host that drives it.              *)
(***************************************************************************)
VARIABLES
    type, state, info, chunk, offset, length, line,
    isChunked, headerSize, bodyBytes, hadError,   \* the fields of HTTPParser
    calls,      \* the callbacks the host has received, in order
    ret,        \* the last call of execute or finish and what it handed back
                \* (no call and Undefined while execute runs)
    pc,         \* where the host is: "new", "idle", inside execute's "loop",
                \* or at its "tail"
    input,      \* the connection: its mode and the bytes it will carry
    fed,        \* how many of those bytes have been passed to execute
    directive,  \* what the host's on_headers_complete answers
    mark,       \* how many callbacks had been received when execute was
                \* last entered
    eos,        \* how many times the host has called finish
    seen,       \* history: how many bytes of the current message the
                \* handlers have consumed in a header state
    erred,      \* history: an execute call has returned a ParseError
    reuse       \* how many times the host has initialised the parser again

vars == << type, state, info, chunk, offset, length, line,
           isChunked, headerSize, bodyBytes, hadError, calls,
           ret, pc, input, fed, directive, mark, eos, seen, erred, reuse >>

\* the parser as one value, and its assignment
Self ==
    [type |-> type, state |-> state, info |-> info,
     chunk |-> chunk, offset |-> offset, length |-> length, line |-> line,
     isChunked |-> isChunked, headerSize |-> headerSize,
     bodyBytes |-> bodyBytes, hadError |-> hadError, calls |-> calls]

Becomes(h) ==
    /\ type' = h.type
    /\ state' = h.state
    /\ info' = h.info
    /\ chunk' = h.chunk
    /\ offset' = h.offset
    /\ length' = h.length
    /\ line' = h.line
    /\ isChunked' = h.isChunked
    /\ headerSize' = h.headerSize
    /\ bodyBytes' = h.bodyBytes
    /\ hadError' = h.hadError
    /\ calls' = h.calls

Returned(of, val) == [of |-> of, val |-> val]

Init ==
    /\ input \in Streams
    /\ directive = NoAnswer
    /\ fed = 0
    /\ mark = 0
    /\ eos = 0
    /\ seen = 0
    /\ erred = FALSE
    /\ reuse = 0
    /\ pc = "new"
    /\ ret = Returned("", Undefined)
    /\ type = Constructed.type
    /\ state = Constructed.state
    /\ info = Constructed.info
    /\ chunk = Constructed.chunk
    /\ offset = Constructed.offset
    /\ length = Constructed.length
    /\ line = Constructed.line
    /\ isChunked = Constructed.isChunked
    /\ headerSize = Constructed.headerSize
    /\ bodyBytes = Constructed.bodyBytes
    /\ hadError = Constructed.hadError
    /\ calls = Constructed.calls

\* the host initialises the new parser for its connection
Initialize ==
    /\ pc = "new"
    /\ Becomes(initialize(Self, input.mode))
    /\ pc' = "idle"
    /\ UNCHANGED << ret, input, fed, directive, mark, eos, seen, erred, reuse >>

\* the sizes of the chunks the host may pass to execute: small ones, and
\* all that is left of the connection
ChunkSizes == (1..MaxChunk) \cup { Len(input.bytes) - fed }

\* the host passes the next n bytes of the connection to execute, which
\* sets its window and enters its loop
Execute(n) ==
    /\ pc = "idle"
    /\ n >= 1
    /\ fed + n <= Len(input.bytes)
    /\ Becomes(ExecuteEnter(Self, Slice(input.bytes, fed + 1, fed + n)))
    /\ fed' = fed + n
    /\ mark' = Len(calls)
    /\ pc' = "loop"
    /\ ret' = Returned("", Undefined)
    /\ UNCHANGED << input, directive, eos, seen, erred, reuse >>

\* the history of header bytes once a handler has left the parser as h: the
\* bytes it consumed count when it ran in a header state, and the count
\* starts again when it ended the message (nextRequest)
HeaderBytesSeen(h) ==
    IF Len(h.calls) > Len(calls) /\ h.calls[Len(h.calls)].cb = "on_message_complete"
    THEN 0
    ELSE IF state \in HEADER_STATES /\ IsNum(h.offset) /\ IsNum(offset)
    THEN seen + (h.offset.v - offset.v)
    ELSE seen

\* one iteration of the loop of execute has run the handler of `state`
\* with the outcome r
Iteration(r) ==
    /\ IF r.thrown # ""
       THEN /\ Becomes(ExecuteCatch(r.h, r.thrown).h)
            /\ ret' = Returned("execute", ExecuteCatch(r.h, r.thrown).ret)
            /\ pc' = "idle"
       ELSE /\ Becomes(r.h)
            /\ ret' = ret
            /\ pc' = IF r.brk THEN "tail" ELSE "loop"
    /\ seen' = HeaderBytesSeen(r.h)
    /\ erred' = (erred \/ (r.thrown # "" /\ r.thrown # "TypeError"))
    /\ reuse' = reuse

InLoop(s) == pc = "loop" /\ Less(offset, Num(length)) /\ state = s

RunRequestLine ==
    /\ InLoop("REQUEST_LINE")
    /\ Iteration(REQUEST_LINE(Self))
    /\ UNCHANGED << input, fed, directive, mark, eos >>

RunResponseLine ==
    /\ InLoop("RESPONSE_LINE")
    /\ Iteration(RESPONSE_LINE(Self))
    /\ UNCHANGED << input, fed, directive, mark, eos >>

\* the answers the host can give to the next on_headers_complete: it keeps
\* to the answer it gave before
Answers == IF directive = NoAnswer THEN Directives ELSE {directive}

\* HEADER on a line that is not the empty one: no callback
RunHeaderLine ==
    /\ InLoop("HEADER")
    /\ FindLF(chunk.s, offset.v, length) = length \/ consumeLine(Self).line.s # ""
    /\ Iteration(HEADER(Self, 0))
    /\ UNCHANGED << input, fed, directive, mark, eos >>

\* HEADER on the empty line: the headers are complete and the host answers
\* skipBody if on_headers_complete is called
RunHeadersComplete(skipBody) ==
    /\ InLoop("HEADER")
    /\ consumeLine(Self).line = Str("")
    /\ Iteration(HEADER(Self, skipBody))
    /\ directive' = IF Len(calls') > Len(calls) THEN skipBody ELSE directive
    /\ UNCHANGED << input, fed, mark, eos >>

RunBodyChunkHead ==
    /\ InLoop("BODY_CHUNKHEAD")
    /\ Iteration(BODY_CHUNKHEAD(Self))
    /\ UNCHANGED << input, fed, directive, mark, eos >>

RunBodyChunk ==
    /\ InLoop("BODY_CHUNK")
    /\ Iteration(BODY_CHUNK(Self))
    /\ UNCHANGED << input, fed, directive, mark, eos >>

RunBodyChunkEnd ==
    /\ InLoop("BODY_CHUNKEND")
    /\ Iteration(BODY_CHUNKEND(Self))
    /\ UNCHANGED << input, fed, directive, mark, eos >>

RunBodyChunkTrailers ==
    /\ InLoop("BODY_CHUNKTRAILERS")
    /\ Iteration(BODY_CHUNKTRAILERS(Self))
    /\ UNCHANGED << input, fed, directive, mark, eos >>

RunBodyRaw ==
    /\ InLoop("BODY_RAW")
    /\ Iteration(BODY_RAW(Self))
    /\ UNCHANGED << input, fed, directive, mark, eos >>

RunBodySized ==
    /\ InLoop("BODY_SIZED")
    /\ Iteration(BODY_SIZED(Self))
    /\ UNCHANGED << input, fed, directive, mark, eos >>

\* the loop of execute is over (its condition is false, or a handler
\* returned true): the rest of execute runs and the call returns
ExecuteReturn ==
    /\ pc = "tail" \/ (pc = "loop" /\ ~Less(offset, Num(length)))
    /\ Becomes(ExecuteTail(Self).h)
    /\ ret' = Returned("execute", ExecuteTail(Self).ret)
    /\ pc' = "idle"
    /\ erred' = (erred \/ ExecuteTail(Self).ret.k = "ParseError")
    /\ UNCHANGED << input, fed, directive, mark, eos, seen, reuse >>

\* the host signals the end of the stream
Finish ==
    /\ pc = "idle"
    /\ eos < MaxFinish
    /\ Becomes(finish(Self).h)
    /\ ret' = Returned("finish", finish(Self).ret)
    /\ eos' = eos + 1
    /\ UNCHANGED << pc, input, fed, directive, mark, seen, erred, reuse >>

Next ==
    \/ Initialize
    \/ \E n \in ChunkSizes : Execute(n)
    \/ RunRequestLine
    \/ RunResponseLine
    \/ RunHeaderLine
    \/ \E skipBody \in Answers : RunHeadersComplete(skipBody)
    \/ RunBodyChunkHead
    \/ RunBodyChunk
    \/ RunBodyChunkEnd
    \/ RunBodyChunkTrailers
    \/ RunBodyRaw
    \/ RunBodySized
    \/ ExecuteReturn
    \/ Finish

Spec == Init /\ [][Next]_vars

\* the connections of a host that reuses its parser
ReuseStreams == {
    Req("PUT / HTTP/1.1\nTransfer-Encoding: chunked\n\n2\r\nhi\r\n1\n!\n0\r\nX: y\r\n\r\n"),
    Req("get / HTTP/1.1\nGET / HTTP/1.1\n\n"),
    Res("HTTP/1.1 200 OK\r\n\r\nabc"),
    Res("HTTP/1.1 204 No\n\nHTTP/1.0 200\nContent-Length: 1\n\na") }

\* the host gives up the connection, calls initialize(mode) on the parser it
\* has, and passes the bytes of a new connection from their start
Reinitialize ==
    /\ pc = "idle"
    /\ reuse < MaxReuse
    /\ fed <= MaxAbandon
    /\ Becomes(initialize(Self, input.mode))
    /\ ret' = Returned("initialize", Undefined)
    /\ reuse' = reuse + 1
    /\ fed' = 0
    /\ seen' = 0
    /\ UNCHANGED << pc, input, directive, mark, eos, erred >>

InitReuse == Init /\ input \in ReuseStreams

NextReuse == Next \/ Reinitialize

SpecReuse == InitReuse /\ [][NextReuse]_vars

(***************************************************************************)
(* What the claims speak of.                                               *)
(***************************************************************************)
IsHeadersComplete(c) == c.cb = "on_headers_complete"
IsBody(c) == c.cb = "on_body"
IsTrailers(c) == c.cb = "on_headers"
IsMessageComplete(c) == c.cb = "on_message_complete"

\* the callbacks with each run of consecutive on_body calls made one call
\* that carries the bytes of all of them
RECURSIVE Coalesce(_)
Coalesce(cs) ==
    IF cs = << >> THEN << >>
    ELSE IF ~IsBody(Head(cs)) THEN << Head(cs) >> \o Coalesce(Tail(cs))
    ELSE IF Len(cs) > 1 /\ IsBody(cs[2])
    THEN Coalesce(<< [cb |-> "on_body", data |-> cs[1].data \o cs[2].data] >>
                  \o SubSeq(cs, 3, Len(cs)))
    ELSE << [cb |-> "on_body", data |-> cs[1].data] >> \o Coalesce(Tail(cs))

\* the whole connection passed to a fresh parser as a single chunk
SingleChunk(skipBody) ==
    execute(initialize(Constructed, input.mode), input.bytes, skipBody).h

\* every byte of the connection has been passed to execute, which has
\* returned, and finish has not been called
AllFed == pc = "idle" /\ fed = Len(input.bytes) /\ eos = 0

\* C1: whatever the partition of the connection's bytes into chunks, once
\* all are fed the callbacks received (consecutive on_body calls taken
\* together) and the parsed fields are those of feeding the bytes as a
\* single chunk.
C1_ChunkingInvariant ==
    AllFed =>
        \A d \in Answers :
            /\ Coalesce(calls) = Coalesce(SingleChunk(d).calls)
            /\ info = SingleChunk(d).info

\* C3: from a parser with hadError set no step changes state, info, line,
\* headerSize or bodyBytes, and none emits a callback.
C3_ErrorFixedPoint ==
    [][hadError =>
          /\ state' = state
          /\ info' = info
          /\ line' = line
          /\ headerSize' = headerSize
          /\ bodyBytes' = bodyBytes
          /\ calls' = calls]_vars

\* C4: no call of execute or finish ends by throwing to the host.
C4_NeverThrows == ret.val.k # "thrown"

\* the callbacks cs make whole messages and the start of one: each message
\* is on_headers_complete, then on_body calls, then at most one on_headers,
\* then on_message_complete; phase is "out" between messages, "in" inside
\* one and "trailed" after its on_headers
RECURSIVE Ordered(_, _)
Ordered(cs, phase) ==
    IF cs = << >> THEN TRUE
    ELSE IF phase = "out"
    THEN IsHeadersComplete(Head(cs)) /\ Ordered(Tail(cs), "in")
    ELSE IF IsMessageComplete(Head(cs)) THEN Ordered(Tail(cs), "out")
    ELSE IF phase = "in" /\ IsBody(Head(cs)) THEN Ordered(Tail(cs), "in")
    ELSE IF phase = "in" /\ IsTrailers(Head(cs)) THEN Ordered(Tail(cs), "trailed")
    ELSE FALSE

\* C2 as stated: over any sequence of execute and finish calls the
\* callbacks arrive message by message, each in the order
\* on_headers_complete, on_body*, at most one on_headers,
\* on_message_complete.
C2_OrderAnyCalls == Ordered(calls, "out")

\* the host has only called execute, or has ended its execute calls with
\* one finish
ExecutesThenOneFinish == eos = 0 \/ (eos = 1 /\ ret.of = "finish" /\ pc = "idle")

\* C2 as amended: over any sequence of execute calls ended by at most one
\* finish call, the callbacks arrive message by message in that order.
C2_OrderUntilFinish == ExecutesThenOneFinish => Ordered(calls, "out")

\* C2's case: two pipelined messages arrived in one chunk and each produced
\* its own sequence, one after the other
C2_PipelinedWitness ==
    /\ pc = "idle" /\ eos = 0 /\ mark = 0
    /\ Len(calls) = 4
    /\ IsHeadersComplete(calls[1]) /\ IsMessageComplete(calls[2])
    /\ IsHeadersComplete(calls[3]) /\ IsMessageComplete(calls[4])
    /\ calls[1].url # calls[3].url

\* the values of the headers named name (in lower case), lower-cased and
\* concatenated in wire order
RECURSIVE TokensOf(_, _)
TokensOf(headers, name) ==
    IF Len(headers) < 2 THEN ""
    ELSE (IF toLowerCase(headers[1]) = name THEN toLowerCase(headers[2]) ELSE "")
         \o TokensOf(SubSeq(headers, 3, Len(headers)), name)

HasHeader(headers, name) ==
    \E i \in 1..Len(headers) : i % 2 = 1 /\ toLowerCase(headers[i]) = name

\* the last Transfer-Encoding header of the on_headers_complete call c says
\* chunked
ChunkedHeader(c) ==
    /\ HasHeader(c.headers, "transfer-encoding")
    /\ LET last == CHOOSE i \in 1..Len(c.headers) :
                       /\ i % 2 = 1 /\ toLowerCase(c.headers[i]) = "transfer-encoding"
                       /\ \A j \in (i + 1)..Len(c.headers) :
                              j % 2 = 1 => toLowerCase(c.headers[j]) # "transfer-encoding"
       IN  toLowerCase(c.headers[last + 1]) = "chunked"

\* the framing of the message of the on_headers_complete call c is
\* determinate: body_remaining is not None (a request, a 1xx, 204 or 304
\* response, or a Content-Length that chunked did not override), or the
\* message is chunked
FramingDeterminate(c) ==
    LET implied == \/ IsNum(c.method)
                   \/ /\ IsNum(c.statusCode)
                      /\ \/ c.statusCode.v \div 100 = 1
                         \/ c.statusCode.v \in {204, 304}
        hasLength == HasHeader(c.headers, "content-length")
    IN  \/ ChunkedHeader(c) /\ ~c.upgrade
        \/ ~(ChunkedHeader(c) /\ hasLength) /\ (hasLength \/ implied)

\* the keep-alive rule of the specification for the call c
KeepAliveRule(c) ==
    /\ FramingDeterminate(c)
    /\ IF c.versionMajor.v > 0 /\ c.versionMinor.v > 0
       THEN ~Includes(TokensOf(c.headers, "connection"), "close")
       ELSE Includes(TokensOf(c.headers, "connection"), "keep-alive")

\* C5: the should_keep_alive passed to every on_headers_complete is the
\* keep-alive rule applied to the message's version, Connection values and
\* framing (true for an HTTP/1.1 request without Connection header, false
\* for an HTTP/1.0 one).
C5_KeepAlive ==
    \A i \in 1..Len(calls) :
        IsHeadersComplete(calls[i]) =>
            calls[i].shouldKeepAlive = Bool(KeepAliveRule(calls[i]))

\* the length of the header block of the first message of the connection
FirstBlock == input.block

\* C6: when the header block of the first message is longer than
\* maxHeaderSize, its on_headers_complete is never emitted and the execute
\* call that consumes the byte crossing the cap returns HPE_HEADER_OVERFLOW.
C6_HeaderOverflow ==
    FirstBlock > maxHeaderSize =>
        /\ \A i \in 1..Len(calls) : ~IsHeadersComplete(calls[i])
        /\ (pc = "idle" /\ ret.of = "execute"
               /\ fed - length <= maxHeaderSize /\ fed > maxHeaderSize)
           => ret.val = ParseError("HPE_HEADER_OVERFLOW")

\* C7: inside execute offset never exceeds length, and what execute returns
\* when it returns no error is a count of bytes no larger than the chunk.
C7_OffsetWithinChunk ==
    /\ pc \in {"loop", "tail"} => IsNum(offset) /\ offset.v <= length
    /\ (pc = "idle" /\ ret.of = "execute" /\ ret.val.k \notin {"ParseError", "thrown"})
       => IsNum(ret.val) /\ ret.val.v <= length

\* C8: a finish call does nothing when hadError is set; otherwise it
\* returns HPE_INVALID_EOF_STATE exactly when state is none of REQUEST_LINE,
\* RESPONSE_LINE, BODY_RAW, emits on_message_complete exactly when state is
\* BODY_RAW, and in REQUEST_LINE and RESPONSE_LINE emits nothing and returns
\* no error.  It never changes another field.
C8_Finish ==
    [][eos' = eos + 1 =>
          /\ UNCHANGED << type, state, info, chunk, offset, length, line,
                          isChunked, headerSize, bodyBytes, hadError >>
          /\ IF hadError
             THEN calls' = calls /\ ret'.val = Undefined
             ELSE /\ (ret'.val = ParseError("HPE_INVALID_EOF_STATE"))
                        <=> state \notin {"REQUEST_LINE", "RESPONSE_LINE", "BODY_RAW"}
                  /\ (calls' = Append(calls, [cb |-> "on_message_complete"]))
                        <=> state = "BODY_RAW"
                  /\ state # "BODY_RAW" => calls' = calls
                  /\ state \in {"REQUEST_LINE", "RESPONSE_LINE", "BODY_RAW"}
                        => ret'.val = Undefined]_vars

\* C8's case: finish was called on a read-until-close body and completed
\* the message
C8_FinishWitness ==
    /\ ret = Returned("finish", Undefined)
    /\ state = "BODY_RAW" /\ ~hadError
    /\ calls # << >> /\ IsMessageComplete(calls[Len(calls)])

\* the value of the first header of the call c named name (in lower case)
HeaderValue(c, name) ==
    c.headers[1 + CHOOSE i \in 1..Len(c.headers) :
                      /\ i % 2 = 1 /\ toLowerCase(c.headers[i]) = name
                      /\ \A j \in 1..(i - 1) :
                             j % 2 = 1 => toLowerCase(c.headers[j]) # name]

\* the on_headers_complete call c opens a message framed by a
\* Content-Length above zero
SizedMessage(c) ==
    /\ IsHeadersComplete(c)
    /\ HasHeader(c.headers, "content-length")
    /\ ~ChunkedHeader(c)
    /\ IsNum(ToNumber(HeaderValue(c, "content-length")))
    /\ ToNumber(HeaderValue(c, "content-length")).v > 0

\* where the callbacks of the message opened by calls[i] end: the index of
\* its on_message_complete, or one past the last callback
MessageEnd(i) ==
    IF \E j \in (i + 1)..Len(calls) : IsMessageComplete(calls[j])
    THEN CHOOSE j \in (i + 1)..Len(calls) :
             /\ IsMessageComplete(calls[j])
             /\ \A k \in (i + 1)..(j - 1) : ~IsMessageComplete(calls[k])
    ELSE Len(calls) + 1

\* the bytes the on_body calls among calls[a..b] have delivered
RECURSIVE Delivered(_, _)
Delivered(a, b) ==
    IF a > b THEN 0
    ELSE (IF IsBody(calls[a]) THEN calls[a].length.v ELSE 0) + Delivered(a + 1, b)

\* where the chunk of the current execute call starts in the connection
ChunkStart == fed - length

\* the on_body call calls[j] of the current execute call starts where the
\* on_body before it stopped (the end of the chunk before) or right after
\* the header block, carries the bytes of the connection at that place,
\* and runs to the end of the chunk unless it is the last of its message
BodyRange(j, last) ==
    /\ calls[j].length.v >= 1
    /\ calls[j].data =
           Slice(input.bytes, ChunkStart + calls[j].start.v + 1,
                 ChunkStart + calls[j].start.v + calls[j].length.v)
    /\ IF IsBody(calls[j - 1]) THEN calls[j].start.v = 0
       ELSE CharAt(input.bytes, ChunkStart + calls[j].start.v) = "\n"
    /\ last \/ calls[j].start.v + calls[j].length.v = length

\* the message opened by calls[i], framed by Content-Length: n, whose
\* callbacks end before calls[end], has had only on_body calls, each of at
\* least one byte and at most one of them in the current execute; they sum
\* to n when on_message_complete has followed and to n - bodyBytes before,
\* and then execute returns only when it has taken the whole chunk
SizedDelivery(i, n, end) ==
    /\ \A j \in (i + 1)..(end - 1) :
           /\ IsBody(calls[j])
           /\ Len(calls[j].data) = calls[j].length.v
           /\ j > mark => BodyRange(j, j + 1 = end /\ j < Len(calls))
           /\ j > mark + 1 => j - 1 = i
    /\ IF end <= Len(calls)
       THEN Delivered(i + 1, end - 1) = n
       ELSE /\ state = "BODY_SIZED"
            /\ bodyBytes = Num(n - Delivered(i + 1, Len(calls)))
            /\ bodyBytes.v > 0
            /\ pc = "idle" => offset = Num(length)

\* C9: for every message framed by Content-Length: N with N > 0 whose
\* on_headers_complete was answered 0, whatever the chunking: at most one
\* on_body per execute call and one for each call that holds body bytes,
\* the on_body ranges are consecutive, their lengths sum to N, and
\* on_message_complete is emitted by the execute call, and the step, that
\* delivers the N-th byte.
C9_SizedBody ==
    directive = 0 =>
        \A i \in 1..Len(calls) :
            SizedMessage(calls[i]) =>
                SizedDelivery(i, ToNumber(HeaderValue(calls[i], "content-length")).v,
                              MessageEnd(i))

\* C9's case: a Content-Length: 3 body came in three execute calls, one
\* on_body each, and the message completed with the third
C9_SizedWitness ==
    /\ directive = 0 /\ Len(calls) >= 5
    /\ SizedMessage(calls[1])
    /\ IsBody(calls[2]) /\ IsBody(calls[3]) /\ IsBody(calls[4])
    /\ calls[2].data \o calls[3].data \o calls[4].data = "abc"
    /\ IsMessageComplete(calls[5])

\* the bytes the on_body calls among calls[a..b] carry, in order
RECURSIVE BodyData(_, _)
BodyData(a, b) ==
    IF a > b THEN ""
    ELSE (IF IsBody(calls[a]) THEN calls[a].data ELSE "") \o BodyData(a + 1, b)

\* a chunked body being read: the phase the reader is in, the bytes left of
\* the chunk, the chunk data read, the sum of the chunk sizes declared and
\* the trailers received
ChunkedStart ==
    [phase |-> "BODY_CHUNKHEAD", rem |-> 0, data |-> "", sum |-> 0, trailers |-> << >>]

\* a line of hex digits
IsHex(l) == l # "" /\ SkipWhile(l, 1, HexDigits \o "ABCDEF") = Len(l) + 1

\* the reader w after the line l: a chunk-size line opens a chunk, or the
\* trailers when the size is zero; the line after a chunk is empty and
\* leads to the next chunk-size line; a trailer line is one more header and
\* the empty line ends the message
AfterLine(w, l) ==
    IF w.phase = "BODY_CHUNKHEAD"
    THEN IF ~IsHex(l) THEN [w EXCEPT !.phase = "malformed"]
         ELSE IF DigitsValue(l, 16) = 0 THEN [w EXCEPT !.phase = "BODY_CHUNKTRAILERS"]
         ELSE [w EXCEPT !.phase = "BODY_CHUNK", !.rem = DigitsValue(l, 16),
                        !.sum = @ + DigitsValue(l, 16)]
    ELSE IF w.phase = "BODY_CHUNKEND"
    THEN [w EXCEPT !.phase = IF l = "" THEN "BODY_CHUNKHEAD" ELSE "malformed"]
    ELSE IF l = "" THEN [w EXCEPT !.phase = "done"]
    ELSE IF parseHeader(l, w.trailers).thrown # "" THEN [w EXCEPT !.phase = "malformed"]
    ELSE [w EXCEPT !.trailers = parseHeader(l, w.trailers).headers]

\* the reader w, which has read the first p bytes of the connection, once
\* the first n bytes are read: the cycle BODY_CHUNKHEAD, BODY_CHUNK,
\* BODY_CHUNKEND, and BODY_CHUNKTRAILERS after the chunk of size zero
RECURSIVE ChunkedWalk(_, _, _)
\* ChunkedWalk at a line: lf is the JS index of the first line feed among
\* the bytes read that the reader has not passed (n when there is none)
ChunkedWalkLine(p, w, n, lf) ==
    IF lf + 1 > n THEN w
    ELSE ChunkedWalk(lf + 1, AfterLine(w, StripCR(Slice(input.bytes, p + 1, lf))), n)

ChunkedWalk(p, w, n) ==
    IF p >= n \/ w.phase \in {"done", "malformed"} THEN w
    ELSE IF w.phase = "BODY_CHUNK"
    THEN IF w.rem <= n - p
         THEN ChunkedWalk(p + w.rem,
                          [w EXCEPT !.data = @ \o Slice(input.bytes, p + 1, p + w.rem),
                                    !.rem = 0, !.phase = "BODY_CHUNKEND"], n)
         ELSE [w EXCEPT !.data = @ \o Slice(input.bytes, p + 1, n), !.rem = @ - (n - p)]
    ELSE ChunkedWalkLine(p, w, n, FindLF(input.bytes, p, n))

\* the first message, whose callbacks end before calls[end], has been
\* delivered as the reader w says: the parser is in w's phase with w's
\* bytes left of the chunk, the on_body calls carry w's chunk data, and
\* once w is done one on_headers(trailers, "") follows if and only if w has
\* trailers, and then on_message_complete
ChunkedDelivery(w, end) ==
    IF w.phase = "done"
    THEN /\ end <= Len(calls)
         /\ IF w.trailers = << >>
            THEN \A j \in 2..(end - 1) : IsBody(calls[j])
            ELSE /\ calls[end - 1] = [cb |-> "on_headers", headers |-> w.trailers, url |-> ""]
                 /\ \A j \in 2..(end - 2) : IsBody(calls[j])
         /\ BodyData(2, end - 1) = w.data
         /\ Delivered(2, end - 1) = w.sum
    ELSE /\ end = Len(calls) + 1
         /\ state = w.phase
         /\ state = "BODY_CHUNK" => bodyBytes = Num(w.rem)
         /\ \A j \in 2..Len(calls) : IsBody(calls[j])
         /\ BodyData(2, Len(calls)) = w.data

\* the first message of the connection is chunked and its
\* on_headers_complete was answered 0
ChunkedMessage ==
    /\ directive = 0 /\ calls # << >>
    /\ IsHeadersComplete(calls[1]) /\ ~calls[1].upgrade
    /\ ChunkedHeader(calls[1])

\* C10: for a chunked message the parser cycles BODY_CHUNKHEAD ->
\* BODY_CHUNK -> BODY_CHUNKEND -> BODY_CHUNKHEAD until a chunk of size zero
\* moves it to BODY_CHUNKTRAILERS; on_body delivers exactly the chunk data in
\* order (as many bytes as the chunk sizes declare); then one
\* on_headers(trailers, "") if and only if a trailer was received, then
\* on_message_complete.
C10_ChunkedBody ==
    (ChunkedMessage /\ IsNum(offset)) =>
        LET w == ChunkedWalk(FirstBlock, ChunkedStart, ChunkStart + offset.v)
        IN  w.phase # "malformed" => ChunkedDelivery(w, MessageEnd(1))

\* C10's case: two chunks and a trailer were read, in any chunking, and
\* delivered as two on_body calls, the trailers and on_message_complete
C10_ChunkedWitness ==
    /\ ChunkedMessage /\ Len(calls) = 5
    /\ IsBody(calls[2]) /\ calls[2].data = "hi"
    /\ IsBody(calls[3]) /\ calls[3].data = "!"
    /\ calls[4] = [cb |-> "on_headers", headers |-> << "X", "y" >>, url |-> ""]
    /\ IsMessageComplete(calls[5])
    /\ state = "REQUEST_LINE" /\ mark > 0

\* C11: when on_headers_complete answers 1 or any other truthy value that
\* is not 2, the body of the message is skipped whatever its Content-Length
\* or Transfer-Encoding: no on_body is emitted, and on_message_complete
\* follows on_headers_complete in the same step, before another byte is
\* parsed.
C11_SkipBody ==
    directive \in {1, 3} =>
        \A i \in 1..Len(calls) :
            /\ ~IsBody(calls[i])
            /\ IsHeadersComplete(calls[i]) =>
                  i < Len(calls) /\ IsMessageComplete(calls[i + 1])

\* C12: once an execute call has returned a ParseError, hadError is set and
\* no later step of execute or finish emits a callback.
C12_ErrorsStick ==
    [][erred => (hadError /\ calls' = calls)]_vars

\* C13: whenever state is BODY_CHUNK or BODY_SIZED, bodyBytes is an integer
\* above zero, for every Content-Length and chunk size the parser accepts.
C13_BodyBytesPositive ==
    state \in {"BODY_CHUNK", "BODY_SIZED"} => IsNum(bodyBytes) /\ bodyBytes.v > 0

\* C14: after every execute call that returns a count, headerSize is the
\* number of bytes of the current message consumed in a header state,
\* summed over the chunks; and HPE_HEADER_OVERFLOW is returned only when
\* that number is above maxHeaderSize.
C14_HeaderBytes ==
    (pc = "idle" /\ ret.of = "execute") =>
        /\ IsNum(ret.val) => headerSize = seen
        /\ ret.val = ParseError("HPE_HEADER_OVERFLOW") => seen > maxHeaderSize

\* is_chunked of the message the on_headers_complete call c opens: its
\* Transfer-Encoding says chunked and it has no upgrade set
IsChunkedOf(c) == ChunkedHeader(c) /\ ~c.upgrade

\* body_remaining of the message the call c opens, when b was left by the
\* start line: None when chunked Transfer-Encoding and Content-Length are
\* both present, else the Content-Length, else b
BodyRemainingOf(c, b) ==
    IF ~HasHeader(c.headers, "content-length") THEN b
    ELSE IF ChunkedHeader(c) THEN Null
    ELSE ToNumber(HeaderValue(c, "content-length"))

\* the state the rule of the claim gives after the answer d, "next" for the
\* next message
StateAfterHeaders(d, chunked, remaining) ==
    IF d = 2 THEN "next"
    ELSE IF chunked /\ d = 0 THEN "BODY_CHUNKHEAD"
    ELSE IF d = 1 \/ remaining = Num(0) THEN "next"
    ELSE IF remaining = Null THEN "BODY_RAW"
    ELSE "BODY_SIZED"

\* the step took the parser to `to`: for "next", on_message_complete was
\* emitted after the call c and state is the start line of the parser's
\* type; otherwise only c was emitted and state is `to`
WentTo(c, to) ==
    IF to = "next"
    THEN /\ calls' = calls \o << c, [cb |-> "on_message_complete"] >>
         /\ state' = (IF type = REQUEST THEN "REQUEST_LINE" ELSE "RESPONSE_LINE")
    ELSE /\ calls' = Append(calls, c)
         /\ state' = to

\* C15: after on_headers_complete answers d in {0, 1, 2} the next state is,
\* in this order: next message for d = 2; BODY_CHUNKHEAD if is_chunked and
\* d = 0; next message if d = 1 or body_remaining = 0; BODY_RAW if
\* body_remaining is None; else BODY_SIZED.  is_chunked is false when the
\* message has upgrade set and body_remaining is None when chunked
\* Transfer-Encoding and Content-Length are both present.
C15_PostHeaders ==
    [][(/\ pc = "loop" /\ state = "HEADER"
        /\ Len(calls') > Len(calls)
        /\ directive' \in {0, 1, 2})
       => WentTo(calls'[Len(calls) + 1],
                 StateAfterHeaders(directive',
                                   IsChunkedOf(calls'[Len(calls) + 1]),
                                   BodyRemainingOf(calls'[Len(calls) + 1], bodyBytes)))]_vars

\* C15's case: a CONNECT request with chunked Transfer-Encoding and a
\* Content-Length was answered 0: upgrade clears is_chunked, the conflict
\* clears body_remaining, and the parser is in BODY_RAW
C15_PostHeadersWitness ==
    /\ directive = 0 /\ state = "BODY_RAW" /\ pc = "loop"
    /\ Len(calls) = 1 /\ IsHeadersComplete(calls[1])
    /\ calls[1].upgrade /\ ChunkedHeader(calls[1])
    /\ HasHeader(calls[1].headers, "content-length")
    /\ ~isChunked /\ bodyBytes = Null

\* the headers of a message with upgrade set were completed during the
\* execute call that has just returned
JustUpgraded ==
    \E i \in (mark + 1)..Len(calls) :
        /\ IsHeadersComplete(calls[i]) /\ calls[i].upgrade
        /\ \A j \in (i + 1)..Len(calls) : ~IsHeadersComplete(calls[j])

\* C16: a successful execute returns less than the chunk length if and only
\* if the message whose headers were just completed has upgrade set; in
\* every other successful case the whole chunk is consumed.
C16_ShortOnlyOnUpgrade ==
    (pc = "idle" /\ ret.of = "execute" /\ ret.val.k # "ParseError") =>
        /\ IsNum(ret.val)
        /\ IF JustUpgraded THEN ret.val.v < length ELSE ret.val.v = length

\* the step is a handler of the loop of execute that ended a message through
\* nextRequest: on_message_complete is the last callback it made
EndsMessage ==
    /\ pc = "loop"
    /\ Len(calls') > Len(calls)
    /\ IsMessageComplete(calls'[Len(calls')])

NewField(l) ==
    \E e \in 2..Len(l) :
        /\ CharAt(l, e) = ":"
        /\ \A k \in 1..(e - 1) : ~CharIn(CharAt(l, k), ": \t")

\* a continuation line starts with a blank
Continuation(l) == IsBlank(CharAt(l, 1))

\* the flat sequence a line of the current state goes to
FieldOf(i) == IF state = "HEADER" THEN i.headers ELSE i.trailers

\* the flat sequence it does not go to
OtherFieldOf(i) == IF state = "HEADER" THEN i.trailers ELSE i.headers

\* the step from the flat sequence old to new for the line l
FieldStep(l, old, new) ==
    IF NewField(l)
    THEN Len(new) = Len(old) + 2 /\ SubSeq(new, 1, Len(old)) = old
    ELSE /\ Len(new) = Len(old)
         /\ \A k \in 1..(Len(old) - 1) : new[k] = old[k]
         /\ ~Continuation(l) => new = old

\* the step is a handler of HEADER or BODY_CHUNKTRAILERS that read a whole,
\* non-empty line and did not throw
ReadsFieldLine ==
    /\ pc = "loop"
    /\ state \in {"HEADER", "BODY_CHUNKTRAILERS"}
    /\ pc' # "idle"
    /\ consumeLine(Self).line # Undefined
    /\ consumeLine(Self).line.s # ""

\* C18: the flat headers and trailers sequences always have even length: a
\* new-field line appends exactly two entries, a continuation line or an
\* ignored malformed line appends none, and a continuation only modifies
\* the last value entry.
C18_HeaderPairs ==
    [][/\ Len(info'.headers) % 2 = 0
       /\ Len(info'.trailers) % 2 = 0
       /\ ReadsFieldLine =>
            /\ FieldStep(consumeLine(Self).line.s, FieldOf(info), FieldOf(info'))
            /\ OtherFieldOf(info') = OtherFieldOf(info)]_vars

\* C18's case: a new field, a continuation of it, an ignored malformed line
\* and a second new field have been read
C18_HeaderPairsWitness ==
    /\ state = "HEADER"
    /\ Len(info.headers) = 4
    /\ info.headers[1] = "A" /\ info.headers[2] = "b c"
    /\ info.headers[3] = "D" /\ info.headers[4] = ""

\* C19: in every state reached through execute calls that returned no
\* error, the length of line_carry is at most max_header_size, in all
\* line-reading states, BodyChunkHead, BodyChunkEnd and BodyChunkTrailers
\* included, when the input supplies no line terminator.
C19_LineBounded ==
    (pc = "idle" /\ ~erred /\ ~hadError) => Len(line) <= maxHeaderSize

\* the fields of the parser h that a later execute or finish reads before
\* writing them
Observable(h) ==
    [type |-> h.type, state |-> h.state, info |-> h.info, line |-> h.line,
     isChunked |-> h.isChunked, headerSize |-> h.headerSize,
     bodyBytes |-> h.bodyBytes, hadError |-> h.hadError]

\* C20: after the host calls initialize(mode) on a parser in any reachable
\* state, a partially received line or an error included, the parser is
\* indistinguishable from a freshly constructed and initialised one:
\* line_carry is empty, had_error is false, and the next execute starts at a
\* start line with no bytes of the previous stream prepended.
C20_ReuseIsFresh ==
    [][reuse' = reuse + 1 =>
        [type |-> type', state |-> state', info |-> info', line |-> line',
         isChunked |-> isChunked', headerSize |-> headerSize',
         bodyBytes |-> bodyBytes', hadError |-> hadError']
          = Observable(initialize(Constructed, input.mode))]_vars
====
